---- MODULE Spec2Model ----
(***************************************************************************)
(* Model of check_chats.py: windowed retrieval of the chat of a recorded   *)
(* video (get_part_chat / get_all_chat over get_chat_by_offset and         *)
(* get_chat_by_cursor), keyword matching (search_keywords) and export.     *)
(*                                                                         *)
(* Strings are sequences of characters so that the substring test and the  *)
(* truth value of a string ("" is false) are computed, not assumed.        *)
(* Times are whole seconds.  The fields login and user_id of SimpleChat    *)
(* are copied from the commenter and never read again; they are left out.  *)
(***************************************************************************)
EXTENDS Integers, Sequences, FiniteSets, TLC

\* ---------------------------------------------------------------- bounds
MaxLen == 3          \* longest feed, in raw entries
PageSize == 2        \* most raw entries the feed puts on one page
MaxOffset == 2       \* latest createdAt of an entry, seconds after the anchor
MaxWin == 2          \* latest window end, seconds
MaxFetches == 4      \* most pages one run is followed for

\* ------------------------------------------------------ program constants
MaxAttempts == 5     \* stop_after_attempt(5)
VideoCreatedAt == 10 \* createdAt of the video, the anchor of all offsets

\* ---------------------------------------------------------------- strings
Hello == <<"h", "e", "l", "l", "o">>
HelloWorld == <<"h", "e", "l", "l", "o", " ", "w", "o", "r", "l", "d">>
Bob == <<"b", "o", "b">>
HelloBot == <<"H", "e", "l", "l", "o", "B", "o", "t">>
CapHello == <<"H", "e", "l", "l", "o">>
LetterO == <<"o">>
Bye == <<"b", "y", "e">>

\* str.lower() on the letters the strings of the model use
LowerChar(c) == IF c = "H" THEN "h" ELSE IF c = "B" THEN "b" ELSE c

Lower(s) == [i \in 1..Len(s) |-> LowerChar(s[i])]

SubstringAt(k, s) ==
    \E i \in 0..(Len(s) - Len(k)) : SubSeq(s, i + 1, i + Len(k)) = k

IsSubstringIgnoringCase(k, s) == SubstringAt(Lower(k), Lower(s))

\* keyword in text : Python's substring test on str
IsSubstring(k, s) ==
    \E i \in 0..(Len(s) - Len(k)) : SubSeq(s, i + 1, i + Len(k)) = k

Min(a, b) == IF a < b THEN a ELSE b

First(s) == s[1]

Last(s) == s[Len(s)]

\* ------------------------------------------------------------- the feed
\* The commenters of the feed: display name and the text they post.
Commenters == {[displayName |-> Bob, text |-> HelloWorld]}

\* A raw edge of the response.  commenter.null marks a JSON null commenter
\* (a deleted or banned account), which has no display name to read.
NullCommenter == [null |-> TRUE, displayName |-> <<>>]

NullEdgeBody ==
    [commenter |-> NullCommenter, text |-> Bye, createdAt |-> VideoCreatedAt]

EdgeBodies ==
    {NullEdgeBody} \cup
    {[commenter |-> [null |-> FALSE, displayName |-> c.displayName],
      text |-> c.text, createdAt |-> VideoCreatedAt + o] :
        c \in Commenters, o \in 0..MaxOffset}

\* The cursor the feed attaches to the entry at position i: a one-character
\* string naming the position, or the empty string at position emptyAt.
CursorAt(i, emptyAt) == IF i = emptyAt THEN <<>> ELSE <<i>>

MakeFeed(bodies, emptyAt) ==
    [i \in 1..Len(bodies) |->
        [id |-> i, cursor |-> CursorAt(i, emptyAt),
         commenter |-> bodies[i].commenter, text |-> bodies[i].text,
         createdAt |-> bodies[i].createdAt]]

\* Every feed of at most MaxLen entries in which at most one entry of a
\* commenter carries the empty cursor (the cursor of an entry with a null
\* commenter is never read).
Feeds ==
    UNION {UNION {{MakeFeed(b, z) :
                     z \in {0} \cup {i \in 1..n : ~b[i].commenter.null}} :
                  b \in [1..n -> EdgeBodies]} : n \in 0..MaxLen}

Windows == {w \in (0..MaxWin) \X (0..MaxWin) : w[1] < w[2]}

KeywordLists == {<<Hello, Bob>>, <<Bye>>}

VARIABLES
    feed,        \* the comment feed of the video, oldest entry first
    mode,        \* "part": main -> get_part_chat ; "all": get_all_chat
    start_seconds, stop_seconds, keywords,   \* arguments of main
    pc,          \* position of the run
    lookups,     \* anchor-resolution requests issued so far, in order
    start_time,  \* <<>> until get_video_start_time returned, then <<t>>
    video_length,\* <<>> until get_video_length returned
    cursor,      \* <<>> is None, <<c>> is the string c
    stop,        \* the loop flag of get_part_chat
    result,      \* the accumulated list
    attempt,     \* attempts made so far by the page-fetch call in progress
    last_exc,    \* exception the latest request raised, "" if it was answered
    reqs,        \* page-fetch calls made so far, one entry per call
    resp,        \* <<>> or <<PageResult>> the last page-fetch call returned
    chats,       \* <<>> or <<list>> the list the retriever returned
    matched_chats, \* output of search_keywords
    artifact,    \* <<>> no file written, <<content>> the exported array
    err          \* "" or the kind of the exception that ended the run

vars == <<feed, mode, start_seconds, stop_seconds, keywords, pc, lookups,
          start_time, video_length, cursor, stop, result, attempt, reqs,
          resp, chats, matched_chats, artifact, err, last_exc>>

inputs == <<feed, mode, start_seconds, stop_seconds, keywords>>

Init ==
    /\ feed \in Feeds
    /\ mode \in {"part", "all"}
    /\ \E w \in Windows :
          /\ start_seconds = (IF mode = "part" THEN w[1] ELSE 0)
          /\ stop_seconds = (IF mode = "part" THEN w[2] ELSE 0)
          /\ mode = "all" => w = <<0, 1>>
    /\ keywords \in KeywordLists
    /\ mode = "all" => keywords = <<Bye>>
    /\ pc = "channel"
    /\ lookups = <<>>
    /\ start_time = <<>>
    /\ video_length = <<>>
    /\ cursor = <<>>
    /\ stop = TRUE
    /\ result = <<>>
    /\ attempt = 0
    /\ reqs = <<>>
    /\ resp = <<>>
    /\ chats = <<>>
    /\ matched_chats = <<>>
    /\ artifact = <<>>
    /\ err = ""
    /\ last_exc = ""

\* ------------------------------------------------------- pure functions
calculate_time_difference(st, current_time) == current_time - st

\* SimpleChat.from_raw_data
from_raw_data(raw_data, st) ==
    [id |-> raw_data.id, cursor |-> raw_data.cursor,
     displayName |-> raw_data.commenter.displayName, text |-> raw_data.text,
     offset |-> calculate_time_difference(st, raw_data.createdAt)]

\* ExportChat.from_simple_chat
FromSimpleChatAbsolute(raw_data, ss) ==
    [displayName |-> raw_data.displayName, text |-> raw_data.text,
     offset |-> raw_data.offset]

from_simple_chat(raw_data, ss) ==
    [displayName |-> raw_data.displayName, text |-> raw_data.text,
     offset |-> raw_data.offset - ss]

\* `if i["node"]["commenter"]` : a null commenter is false
KeepsEveryEdge(edge) == TRUE

HasCommenter(edge) == ~edge.commenter.null

\* `if not cursor` : None and the empty string are both false
IsFalsy(cur) == cur = <<>> \/ cur[1] = <<>>

\* The request the loop issues for the current cursor (lines 180-183, 201-204)
NextRequest(cur, offset) ==
    IF IsFalsy(cur) THEN [op |-> "offset", offset |-> offset, cursor |-> <<>>]
    ELSE [op |-> "cursor", offset |-> 0, cursor |-> cur[1]]

\* The server side of the two requests.  feed is what the server holds from
\* the place it picks for contentOffsetSeconds onwards, so a request by
\* offset is served from the head of the feed, whatever offsets the entries
\* there have; a request by cursor is served from the entry after the one
\* that carries the cursor.
PagePosition(req) ==
    IF req.op = "offset" THEN 0
    ELSE CHOOSE i \in 1..Len(feed) : feed[i].cursor = req.cursor

\* The response of the feed to a request: resp[0]["data"]["video"]["comments"]
FeedResponse(req) ==
    LET pos == PagePosition(req) IN
    [edges |-> SubSeq(feed, pos + 1, Min(pos + PageSize, Len(feed))),
     hasNextPage |-> pos + PageSize < Len(feed)]

\* Body of get_chat_by_offset / get_chat_by_cursor after the request, for a
\* response with a non-empty edge list (lines 137-142, 148-153)
ParsePage(comments, st) ==
    LET cs == SelectSeq(comments.edges, HasCommenter) IN
    [next |-> comments.hasNextPage,
     chats |-> [i \in 1..Len(cs) |-> from_raw_data(cs[i], st)]]

\* `if chat.offset > stop_seconds` (line 206)
ExceedsOrEquals(chat, bound) == chat.offset >= bound

Exceeds(chat, bound) == chat.offset > bound

\* The for loop of get_part_chat (lines 205-210): [result, stop] after it.
RECURSIVE ConsumeChatsNoBreak(_, _, _)
ConsumeChatsNoBreak(cs, bound, acc) ==
    IF cs = <<>> THEN [result |-> acc, stop |-> TRUE]
    ELSE LET rest == ConsumeChatsNoBreak(Tail(cs), bound, Append(acc, Head(cs)))
         IN [result |-> rest.result,
             stop |-> rest.stop /\ ~Exceeds(Head(cs), bound)]

RECURSIVE ConsumeChats(_, _, _)
ConsumeChats(cs, bound, acc) ==
    IF cs = <<>> THEN [result |-> acc, stop |-> TRUE]
    ELSE IF Exceeds(Head(cs), bound) THEN [result |-> acc, stop |-> FALSE]
    ELSE ConsumeChats(Tail(cs), bound, Append(acc, Head(cs)))

\* search_keywords (lines 218-225)
RECURSIVE MatchKeywordsOnce(_, _)
MatchKeywordsOnce(chat, kws) ==
    IF kws = <<>> THEN <<>>
    ELSE IF IsSubstring(Head(kws), chat.displayName) \/ IsSubstring(Head(kws), chat.text)
         THEN <<chat>>
         ELSE MatchKeywordsOnce(chat, Tail(kws))

RECURSIVE MatchKeywords(_, _)
MatchKeywords(chat, kws) ==
    IF kws = <<>> THEN <<>>
    ELSE (IF IsSubstring(Head(kws), chat.displayName) \/ IsSubstring(Head(kws), chat.text)
          THEN <<chat>> ELSE <<>>) \o MatchKeywords(chat, Tail(kws))

RECURSIVE search_keywords(_, _)
search_keywords(cs, kws) ==
    IF cs = <<>> THEN <<>>
    ELSE MatchKeywords(Head(cs), kws) \o search_keywords(Tail(cs), kws)

\* export (lines 230-232): the set of export records, then every order the
\* stable sort by offset can leave them in (the iteration order of a set of
\* tuples of strings is not fixed).
ExportSet(cs, ss) == {from_simple_chat(cs[i], ss) : i \in 1..Len(cs)}

RECURSIVE SortedOrders(_)
SortedOrders(S) ==
    IF S = {} THEN {<<>>}
    ELSE UNION {{<<x>> \o q : q \in SortedOrders(S \ {x})} :
                  x \in {y \in S : \A z \in S : y.offset <= z.offset}}

\* ------------------------------------------------------------- actions
LookupErrors == {"TimeoutException", "NetworkError", "KeyError"}
AttemptErrors == {"TimeoutException", "NetworkError", "KeyError"}

\* First request of get_video_start_time / get_video_length (lines 157-158,
\* 165-166) answered with the owner's login.
ChannelLookup ==
    /\ pc = "channel"
    /\ lookups' = Append(lookups, "ChannelVideoCore")
    /\ pc' = "metadata"
    /\ UNCHANGED <<inputs, start_time, video_length, cursor, stop, result,
                   attempt, reqs, resp, chats, matched_chats, artifact, err,
                   last_exc>>

\* Second request (lines 159-161, 167-169) answered with the metadata.
\* get_part_chat goes on to its loop; get_all_chat resolves the length next.
MetadataLookup ==
    /\ pc = "metadata"
    /\ lookups' = Append(lookups, "VideoMetadata")
    /\ IF start_time = <<>>
       THEN /\ start_time' = <<VideoCreatedAt>>
            /\ pc' = (IF mode = "all" THEN "channel" ELSE "fetch")
            /\ UNCHANGED video_length
       ELSE /\ video_length' = <<MaxOffset>>
            /\ pc' = "fetch"
            /\ UNCHANGED start_time
    /\ UNCHANGED <<inputs, cursor, stop, result, attempt, reqs, resp, chats,
                   matched_chats, artifact, err, last_exc>>

\* Either lookup raises (timeout, other network error, missing field):
\* nothing catches it, the run ends.
LookupFailRetried ==
    /\ pc \in {"channel", "metadata"}
    /\ lookups' = Append(lookups, IF pc = "channel" THEN "ChannelVideoCore"
                                                   ELSE "VideoMetadata")
    /\ last_exc' \in LookupErrors
    /\ UNCHANGED <<inputs, pc, err, start_time, video_length, cursor, stop,
                   result, attempt, reqs, resp, chats, matched_chats, artifact>>

LookupFail ==
    /\ pc \in {"channel", "metadata"}
    /\ lookups' = Append(lookups, IF pc = "channel" THEN "ChannelVideoCore"
                                                   ELSE "VideoMetadata")
    /\ pc' = "error"
    /\ err' \in LookupErrors
    /\ last_exc' = err'
    /\ UNCHANGED <<inputs, start_time, video_length, cursor, stop, result,
                   attempt, reqs, resp, chats, matched_chats, artifact>>

\* The request of the page-fetch call in progress, or of the one the loop
\* is about to make.
CurrentRequest == NextRequest(cursor, start_seconds)

\* An attempt starts a new call when none is in progress.
IssueAttempt ==
    /\ pc = "fetch"
    /\ attempt = 0 => Len(reqs) < MaxFetches
    /\ reqs' = (IF attempt = 0 THEN Append(reqs, CurrentRequest) ELSE reqs)

\* The @retry decorator (lines 134, 145): retry_if_exception_type lets only a
\* timeout be retried, stop_after_attempt(5) ends the retries with RetryError.
RetriesEveryException(kind) == TRUE

ShouldRetry(kind) == kind = "TimeoutException"

StopsOneAttemptLate(n) == n > MaxAttempts

RetryStops(n) == n >= MaxAttempts

\* The attempt in progress raises an exception of the given kind.
Raise(kind) ==
    /\ last_exc' = kind
    /\ attempt' = attempt + 1
    /\ IF ShouldRetry(kind)
       THEN IF RetryStops(attempt + 1)
            THEN /\ pc' = "error"
                 /\ err' = "RetryError"
            ELSE UNCHANGED <<pc, err>>
       ELSE /\ pc' = "error"
            /\ err' = kind

\* session.post(...) raises: a timeout or another network error; or .json()
\* and the subscripts of lines 137-139 raise on a malformed body.
FetchAttemptRaises ==
    /\ IssueAttempt
    /\ \E kind \in AttemptErrors : Raise(kind)
    /\ UNCHANGED <<inputs, lookups, start_time, video_length, cursor, stop,
                   result, resp, chats, matched_chats, artifact>>

\* What the server may answer: the page of the feed, or an empty edge list
\* with either flag.
PossibleResponses(req) ==
    {FeedResponse(req)} \cup {[edges |-> <<>>, hasNextPage |-> b] : b \in BOOLEAN}

\* An attempt gets a response (lines 136-142, 147-153): edges[-1] raises
\* IndexError on an empty edge list, otherwise the call returns its PageResult.
FetchAttemptResponse ==
    /\ IssueAttempt
    /\ \E comments \in PossibleResponses(CurrentRequest) :
          IF comments.edges = <<>>
          THEN /\ Raise("IndexError")
               /\ UNCHANGED resp
          ELSE /\ pc' = "consume"
               /\ resp' = <<ParsePage(comments, start_time[1])>>
               /\ attempt' = 0
               /\ last_exc' = ""
               /\ UNCHANGED err
    /\ UNCHANGED <<inputs, lookups, start_time, video_length, cursor, stop,
                   result, chats, matched_chats, artifact>>

\* get_part_chat, lines 205-215: the for loop, then the cursor update or the
\* break, then the loop test, then the return.
PartLoopBody ==
    /\ pc = "consume"
    /\ mode = "part"
    /\ LET r == resp[1]
           c == ConsumeChats(r.chats, stop_seconds, result)
       IN /\ result' = c.result
          /\ stop' = c.stop
          /\ IF r.next /\ r.chats = <<>>
             THEN /\ pc' = "error"
                  /\ err' = "IndexError"
                  /\ UNCHANGED <<cursor, chats>>
             ELSE /\ cursor' = (IF r.next THEN <<Last(r.chats).cursor>> ELSE cursor)
                  /\ IF r.next /\ c.stop
                     THEN /\ pc' = "fetch"
                          /\ UNCHANGED chats
                     ELSE /\ pc' = "search"
                          /\ chats' = <<c.result>>
                  /\ UNCHANGED err
    /\ UNCHANGED <<inputs, lookups, start_time, video_length, attempt, reqs,
                   resp, matched_chats, artifact, last_exc>>

\* get_all_chat, lines 184-190.
AllLoopBody ==
    /\ pc = "consume"
    /\ mode = "all"
    /\ LET r == resp[1]
       IN /\ result' = result \o r.chats
          /\ IF r.next /\ r.chats = <<>>
             THEN /\ pc' = "error"
                  /\ err' = "IndexError"
                  /\ UNCHANGED <<cursor, chats>>
             ELSE /\ cursor' = (IF r.next THEN <<Last(r.chats).cursor>> ELSE cursor)
                  /\ IF r.next
                     THEN /\ pc' = "fetch"
                          /\ UNCHANGED chats
                     ELSE /\ pc' = "done"
                          /\ chats' = <<result'>>
                  /\ UNCHANGED err
    /\ UNCHANGED <<inputs, lookups, start_time, video_length, stop, attempt,
                   reqs, resp, matched_chats, artifact, last_exc>>

\* main, lines 238-239: the matcher, then the test that guards the export.
ExportsAlways(matched) == TRUE

ShouldExport(matched) == matched # <<>>

SearchKeywords ==
    /\ pc = "search"
    /\ matched_chats' = search_keywords(chats[1], keywords)
    /\ pc' = (IF ShouldExport(matched_chats') THEN "export" ELSE "done")
    /\ UNCHANGED <<inputs, lookups, start_time, video_length, cursor, stop,
                   result, attempt, reqs, resp, chats, artifact, err,
                   last_exc>>

\* main, line 240: export writes the artifact.
Export ==
    /\ pc = "export"
    /\ \E q \in SortedOrders(ExportSet(matched_chats, start_seconds)) :
          artifact' = <<q>>
    /\ pc' = "done"
    /\ UNCHANGED <<inputs, lookups, start_time, video_length, cursor, stop,
                   result, attempt, reqs, resp, chats, matched_chats, err,
                   last_exc>>

Next ==
    \/ ChannelLookup
    \/ MetadataLookup
    \/ LookupFail
    \/ FetchAttemptRaises
    \/ FetchAttemptResponse
    \/ PartLoopBody
    \/ AllLoopBody
    \/ SearchKeywords
    \/ Export

Spec == Init /\ [][Next]_vars

\* The event loop runs the single task until it returns or raises.
FairSpec == Spec /\ WF_vars(Next)

\* --------------------------------------- search_keywords and export alone
\* The two functions applied to arguments of the caller's choice: any list
\* of at most MaxChats records, a keyword list, a window start.
MaxChats == 2        \* longest list handed to search_keywords

CallRecords ==
    {[id |-> 1, cursor |-> <<1>>, displayName |-> n, text |-> t, offset |-> o] :
        n \in {Bob, HelloBot}, t \in {HelloWorld, Bye}, o \in 1..MaxOffset}

CallChats == UNION {[1..n -> CallRecords] : n \in 0..MaxChats}

CallKeywordLists ==
    {<<Hello>>, <<CapHello>>, <<Hello, Bob>>, <<LetterO, Bye>>}

CallInit ==
    /\ feed = <<>>
    /\ mode = "part"
    /\ start_seconds \in 0..1
    /\ stop_seconds = MaxOffset
    /\ keywords \in CallKeywordLists
    /\ \E cs \in CallChats : chats = <<cs>>
    /\ pc = "call_search"
    /\ lookups = <<>>
    /\ start_time = <<>>
    /\ video_length = <<>>
    /\ cursor = <<>>
    /\ stop = TRUE
    /\ result = <<>>
    /\ attempt = 0
    /\ reqs = <<>>
    /\ resp = <<>>
    /\ matched_chats = <<>>
    /\ artifact = <<>>
    /\ err = ""
    /\ last_exc = ""

\* matched = search_keywords(chats, keywords, start_seconds)
CallSearchKeywords ==
    /\ pc = "call_search"
    /\ matched_chats' = search_keywords(chats[1], keywords)
    /\ pc' = "call_export"
    /\ UNCHANGED <<inputs, lookups, start_time, video_length, cursor, stop,
                   result, attempt, reqs, resp, chats, artifact, err,
                   last_exc>>

\* export(matched, start_seconds), called once and then once more on the
\* same list; every call writes a file of its own (line 229).  The hash of
\* a str changes from one interpreter process to the next, and with it the
\* iteration order of the set of line 231.
CallExport ==
    /\ pc \in {"call_export", "call_export_again"}
    /\ \E q \in SortedOrders(ExportSet(matched_chats, start_seconds)) :
          artifact' = Append(artifact, q)
    /\ pc' = (IF pc = "call_export" THEN "call_export_again" ELSE "call_end")
    /\ UNCHANGED <<inputs, lookups, start_time, video_length, cursor, stop,
                   result, attempt, reqs, resp, chats, matched_chats, err,
                   last_exc>>

CallNext ==
    \/ CallSearchKeywords
    \/ CallExport

CallSpec == CallInit /\ [][CallNext]_vars

TypeOK ==
    /\ pc \in {"channel", "metadata", "fetch", "consume", "search", "export",
               "done", "error", "call_search", "call_export",
               "call_export_again", "call_end"}
    /\ attempt \in 0..MaxAttempts
    /\ Len(reqs) <= MaxFetches

\* ------------------------------------------------------------ properties
Offsets(cs) == {cs[i].offset : i \in 1..Len(cs)}

Ids(cs) == {cs[i].id : i \in 1..Len(cs)}

\* Index of the first record of cs whose offset is greater than e, 0 if none.
FirstOver(cs, e) ==
    IF \E i \in 1..Len(cs) : cs[i].offset > e
    THEN CHOOSE i \in 1..Len(cs) :
            /\ cs[i].offset > e
            /\ \A j \in 1..(i - 1) : cs[j].offset <= e
    ELSE 0

Returned == chats # <<>>

\* C1: in every state of a get_part_chat run no record of the accumulated
\* result, and none of the returned list, has an offset greater than the
\* window end.
WindowUpperBound ==
    mode = "part" =>
        /\ \A o \in Offsets(result) : o <= stop_seconds
        /\ Returned => \A o \in Offsets(chats[1]) : o <= stop_seconds

\* get_part_chat returned after a page put a record past the window end
\* behind records it kept.
WindowUpperBoundWitness ==
    /\ mode = "part"
    /\ Returned
    /\ chats[1] # <<>>
    /\ \E o \in Offsets(resp[1].chats) : o > stop_seconds

\* C2: every record get_part_chat returns has an offset of at least the
\* window start.
WindowLowerBound ==
    (mode = "part" /\ Returned) =>
        \A o \in Offsets(chats[1]) : o >= start_seconds

\* C3: a run makes no more page-fetch calls than the feed has entries (every
\* call that returns moves the cursor forward in the feed), so the loop
\* stops after finitely many fetches.
LoopTerminates ==
    Len(reqs) <= (IF feed = <<>> THEN 1 ELSE Len(feed))

\* C4: when a page holds a record past the window end, get_part_chat keeps
\* exactly the records before the first such record (a record at the window
\* end included), returns at once whatever hasNextPage says, and issues no
\* page request after it returned; a page without such a record is
\* accumulated whole.
EarlyTermination ==
    [][/\ (pc = "consume" /\ mode = "part") =>
            LET cs == resp[1].chats
                k == FirstOver(cs, stop_seconds)
            IN IF k > 0
               THEN /\ pc' = "search"
                    /\ result' = result \o SubSeq(cs, 1, k - 1)
                    /\ chats' = <<result'>>
                    /\ reqs' = reqs
               ELSE result' = result \o cs
       /\ Returned => (reqs' = reqs /\ attempt' = attempt)]_vars

\* get_part_chat returned on a page that reported more pages, keeping the
\* record at the window end and dropping the record after it.
EarlyTerminationWitness ==
    /\ mode = "part"
    /\ pc = "search"
    /\ resp[1].next
    /\ Len(resp[1].chats) = 2
    /\ resp[1].chats[1].offset = stop_seconds
    /\ resp[1].chats[2].offset > stop_seconds
    /\ Ids(chats[1]) = {resp[1].chats[1].id}

\* The window bound was hit by the page in resp.
BoundHit == mode = "part" /\ FirstOver(resp[1].chats, stop_seconds) > 0

\* C5: after a page that does not hit the window bound, the next request is
\* by the cursor of the page's last record if the page reports more pages,
\* and the retriever returns otherwise.
CursorChaining ==
    [][(pc = "consume" /\ ~BoundHit) =>
          IF resp[1].next
          THEN /\ resp[1].chats # <<>>
               /\ pc' = "fetch"
               /\ NextRequest(cursor', start_seconds) =
                     [op |-> "cursor", offset |-> 0,
                      cursor |-> Last(resp[1].chats).cursor]
          ELSE Returned']_vars

NonTimeout == {"NetworkError", "KeyError", "IndexError"}

\* C6: a page-fetch call makes at most 5 attempts; an attempt after the
\* first follows a timeout; an attempt that is answered returns the page of
\* the feed; the fifth timeout ends the run with RetryError.
RetryBound ==
    [][/\ attempt' <= MaxAttempts
       /\ (pc' = "fetch" /\ attempt' > 0) =>
             (last_exc' = "TimeoutException" /\ attempt' < MaxAttempts)
       /\ (pc = "fetch" /\ pc' = "consume") =>
             /\ attempt < MaxAttempts
             /\ resp' = <<ParsePage(FeedResponse(CurrentRequest), start_time[1])>>
       /\ (pc = "fetch" /\ attempt = MaxAttempts - 1
             /\ last_exc' = "TimeoutException") =>
             (pc' = "error" /\ err' = "RetryError" /\ ~Returned')
       /\ (err' = "RetryError") => (attempt' = MaxAttempts /\ pc' = "error")
       /\ pc = "error" => UNCHANGED vars]_vars

\* The second page-fetch call of a run used up its five attempts.
RetryBoundWitness ==
    /\ pc = "error"
    /\ err = "RetryError"
    /\ attempt = MaxAttempts
    /\ Len(reqs) = 2

\* C7: an attempt that fails with anything but a timeout ends the run at
\* once: no further attempt, no further page, nothing returned.
NonTimeoutFatal ==
    [][/\ (pc = "fetch" /\ last_exc' \in NonTimeout) =>
             /\ pc' = "error"
             /\ err' = last_exc'
             /\ ~Returned'
             /\ artifact' = <<>>
       /\ (pc = "error" /\ err \in NonTimeout) => UNCHANGED vars]_vars

\* The third attempt of the second page-fetch call met an empty edge list.
NonTimeoutFatalWitness ==
    /\ pc = "error"
    /\ err = "IndexError"
    /\ last_exc = "IndexError"
    /\ attempt = 3
    /\ Len(reqs) = 2
    /\ result # <<>>

NullIds == {i \in 1..Len(feed) : feed[i].commenter.null}

\* C8: no record built from an entry with a null commenter is in a
\* PageResult, in the accumulated list, in the returned list, in the
\* matcher's output or in the export.
NullCommenterFiltered ==
    /\ resp # <<>> => Ids(resp[1].chats) \cap NullIds = {}
    /\ Ids(result) \cap NullIds = {}
    /\ Returned => Ids(chats[1]) \cap NullIds = {}
    /\ Ids(matched_chats) \cap NullIds = {}
    /\ artifact # <<>> =>
          \A i \in 1..Len(artifact[1]) :
             \E j \in (1..Len(feed)) \ NullIds :
                artifact[1][i] =
                   from_simple_chat(from_raw_data(feed[j], VideoCreatedAt),
                                    start_seconds)

\* An export was written after a page that began with a null-commenter
\* entry followed by an entry of a commenter was consumed.
NullCommenterFilteredWitness ==
    /\ artifact # <<>>
    /\ artifact[1] # <<>>
    /\ Len(feed) >= 2
    /\ feed[1].commenter.null
    /\ ~feed[2].commenter.null

\* C9: an artifact exists only when get_part_chat returned without error
\* and the matcher found something; a run that failed, and a run without a
\* match, has written none.
NoArtifactWithoutResult ==
    /\ artifact # <<>> =>
          (mode = "part" /\ Returned /\ err = "" /\ matched_chats # <<>>
             /\ pc = "done")
    /\ pc = "error" => artifact = <<>>
    /\ (pc = "done" /\ matched_chats = <<>>) => artifact = <<>>

\* A run whose retriever returned records none of which matched ended
\* without an artifact.
NoArtifactWithoutResultWitness ==
    /\ pc = "done"
    /\ mode = "part"
    /\ chats[1] # <<>>
    /\ matched_chats = <<>>
    /\ artifact = <<>>

ExpectedLookups ==
    IF mode = "part" THEN <<"ChannelVideoCore", "VideoMetadata">>
    ELSE <<"ChannelVideoCore", "VideoMetadata", "ChannelVideoCore", "VideoMetadata">>

AnchorPending ==
    start_time = <<>> \/ (mode = "all" /\ video_length = <<>>)

\* C10: the lookups go channel identity then metadata, once each per
\* resolution, all before the first page request; a failed lookup is not
\* repeated and no page request follows it.
AnchorResolutionOrder ==
    /\ Len(lookups) <= Len(ExpectedLookups)
    /\ lookups = SubSeq(ExpectedLookups, 1, Len(lookups))
    /\ (reqs # <<>> \/ attempt > 0) => (lookups = ExpectedLookups /\ ~AnchorPending)
    /\ (pc = "error" /\ AnchorPending) =>
          (reqs = <<>> /\ attempt = 0 /\ resp = <<>> /\ err \in LookupErrors)

\* The metadata lookup timed out after the channel lookup succeeded.
AnchorResolutionOrderWitness ==
    /\ pc = "error"
    /\ err = "TimeoutException"
    /\ lookups = <<"ChannelVideoCore", "VideoMetadata">>
    /\ start_time = <<>>
    /\ reqs = <<>>

Elems(q) == {q[i] : i \in 1..Len(q)}

\* Number of keywords of kws that occur in the display name or in the text.
MatchCount(chat, kws) ==
    Cardinality({k \in 1..Len(kws) :
                    \/ IsSubstring(kws[k], chat.displayName)
                    \/ IsSubstring(kws[k], chat.text)})

\* Every record of cs repeated as often as keywords match it, in the order
\* of cs.
RECURSIVE Replicated(_, _)
Replicated(cs, kws) ==
    IF cs = <<>> THEN <<>>
    ELSE [j \in 1..MatchCount(Head(cs), kws) |-> Head(cs)]
            \o Replicated(Tail(cs), kws)

Searched == pc \in {"call_export", "call_export_again", "call_end"}

\* C11: the output of search_keywords holds every input record once per
\* keyword that occurs in its display name or its text (once, not twice,
\* for a keyword that occurs in both), in the order of the input.
KeywordMultiplicity ==
    Searched => matched_chats = Replicated(chats[1], keywords)

\* The matcher ran on a record that the keyword "o" matches in both fields
\* and on a record that both keywords match: three entries for two records.
KeywordMultiplicityWitness ==
    /\ Searched
    /\ keywords = <<LetterO, Bye>>
    /\ Len(chats[1]) = 2
    /\ chats[1][1].displayName = Bob /\ chats[1][1].text = HelloWorld
    /\ chats[1][2].displayName = HelloBot /\ chats[1][2].text = Bye
    /\ matched_chats = <<chats[1][1], chats[1][2], chats[1][2]>>

\* C12: with the keyword "hello" the matcher returns a record whose text is
\* "hello world" and also a record whose display name is "HelloBot" and
\* whose text has no "hello".
KeywordExample ==
    (Searched /\ keywords = <<Hello>>) =>
        \A r \in Elems(chats[1]) :
           /\ r.text = HelloWorld => r \in Elems(matched_chats)
           /\ (r.displayName = HelloBot /\ r.text = Bye) =>
                 r \in Elems(matched_chats)

\* C12 as amended: with the keyword "hello" the record with the text
\* "hello world" is returned and the record of "HelloBot" with the text
\* "bye" is not; the keyword "Hello" returns the record of "HelloBot".
KeywordExampleCaseSensitive ==
    /\ (Searched /\ keywords = <<Hello>>) =>
          \A r \in Elems(chats[1]) :
             /\ r.text = HelloWorld => r \in Elems(matched_chats)
             /\ (r.displayName = HelloBot /\ r.text = Bye) =>
                   r \notin Elems(matched_chats)
    /\ (Searched /\ keywords = <<CapHello>>) =>
          \A r \in Elems(chats[1]) :
             r.displayName = HelloBot => r \in Elems(matched_chats)

\* The matcher ran with "hello" on a record with the text "hello world" and
\* a record of "HelloBot" saying "bye", and returned the first only.
KeywordExampleWitness ==
    /\ Searched
    /\ keywords = <<Hello>>
    /\ Len(chats[1]) = 2
    /\ chats[1][1].text = HelloWorld
    /\ chats[1][2].displayName = HelloBot /\ chats[1][2].text = Bye
    /\ matched_chats = <<chats[1][1]>>

Exported == artifact # <<>>

\* C13: every exported array holds exactly the export records (display
\* name, text, offset minus window start) of the matched records, no record
\* twice, in ascending order of offset.
ExportContent ==
    \A n \in 1..Len(artifact) :
       LET q == artifact[n] IN
       /\ Elems(q) = {[displayName |-> m.displayName, text |-> m.text,
                       offset |-> m.offset - start_seconds] :
                         m \in Elems(matched_chats)}
       /\ \A i, j \in 1..Len(q) : i < j => q[i] # q[j]
       /\ \A i, j \in 1..Len(q) : i < j => q[i].offset <= q[j].offset

\* An export with window start 1 of a list in which a record matched by two
\* keywords stands twice, before a record with an earlier offset.
ExportContentWitness ==
    /\ Exported
    /\ start_seconds = 1
    /\ Len(matched_chats) = 3
    /\ matched_chats[1] = matched_chats[2]
    /\ matched_chats[3].offset < matched_chats[1].offset
    /\ Len(artifact[1]) = 2
    /\ artifact[1][1].offset = 0

\* C14: two exports of the same matched list have the same content.
ExportDeterministic ==
    Len(artifact) = 2 => artifact[1] = artifact[2]

\* C15: the retriever step that consumes a page ends without error whatever
\* entries of the page have a null commenter, and the retrieval goes on or
\* ends as hasNextPage says.
NullEntriesSkippedSilently ==
    [][pc = "consume" =>
          /\ err' = ""
          /\ pc' # "error"
          /\ IF resp[1].next /\ ~BoundHit THEN pc' = "fetch" ELSE Returned']_vars

\* C16: the first page request of a run is by offset at the window start
\* and every later one is by cursor.
OffsetRequestOnlyFirst ==
    \A i \in 1..Len(reqs) :
       IF i = 1
       THEN reqs[i] = [op |-> "offset", offset |-> start_seconds, cursor |-> <<>>]
       ELSE reqs[i].op = "cursor"

KeptIndexes == (1..Len(feed)) \ NullIds

\* The records of commenters come in the order of their time.
Chronological ==
    \A i, j \in KeptIndexes : i < j => feed[i].createdAt <= feed[j].createdAt

\* Any PageSize consecutive entries hold an entry of a commenter.
EveryPageKeepsRecord ==
    /\ feed # <<>>
    /\ \A pos \in 0..(Len(feed) - 1) :
          \E i \in (pos + 1)..Min(pos + PageSize, Len(feed)) : i \in KeptIndexes

\* The indexes of the entries of commenters before the first one whose
\* offset is past the window end.
InWindowPrefix ==
    {i \in KeptIndexes :
        \A j \in KeptIndexes :
           j <= i => feed[j].createdAt - VideoCreatedAt <= stop_seconds}

FullWindow ==
    /\ mode = "part"
    /\ start_seconds = 0
    /\ \A i \in KeptIndexes : feed[i].createdAt - VideoCreatedAt <= stop_seconds

\* C18: with a window from 0 that no record exceeds, get_part_chat and
\* get_all_chat take the same steps: from the same cursor they issue the
\* same request, and from the same accumulated list, cursor and page they
\* reach the same list and cursor and both go on, both fail or both return
\* that list; so over one feed they issue the same requests and return the
\* same records.
BoundedMatchesUnbounded ==
    [][(mode = "all" \/ FullWindow) =>
          /\ (pc = "fetch" /\ Len(reqs') = Len(reqs) + 1) =>
                reqs' = Append(reqs, NextRequest(cursor, 0))
          /\ pc = "consume" =>
                /\ result' = result \o resp[1].chats
                /\ IF ~resp[1].next
                   THEN /\ chats' = <<result'>>
                        /\ pc' \in {"search", "done"}
                        /\ cursor' = cursor
                   ELSE IF resp[1].chats = <<>>
                   THEN pc' = "error" /\ ~Returned'
                   ELSE /\ cursor' = <<Last(resp[1].chats).cursor>>
                        /\ pc' = "fetch"
                        /\ ~Returned']_vars

\* get_part_chat returned the records of two pages under a window from 0 to
\* the offset of the last record.
BoundedMatchesUnboundedWitness ==
    /\ FullWindow
    /\ Returned
    /\ Len(reqs) = 2
    /\ Len(chats[1]) = 3
    /\ chats[1][3].offset = stop_seconds

\* C19: a timed-out attempt leaves the accumulated list and the cursor as
\* they were and is followed by the same request; no request is issued by
\* two page-fetch calls of a run; every call starts counting at zero.
RetriesAreLocal ==
    [][/\ (pc = "fetch" /\ attempt' = attempt + 1
             /\ last_exc' = "TimeoutException") =>
             /\ result' = result
             /\ cursor' = cursor
             /\ reqs'[Len(reqs')] = CurrentRequest
             /\ CurrentRequest' = CurrentRequest
       /\ \A i, j \in 1..Len(reqs') : i < j => reqs'[i] # reqs'[j]
       /\ (pc = "consume" /\ pc' = "fetch") => attempt' = 0]_vars
====
